---- MODULE Spec2Model ----
(***************************************************************************)
(* The two notebooks of ml-aims-mt2022 (the Pyro introduction and the      *)
(* Bayesian-neural-network practical) as state machines: a kernel session  *)
(* runs the code cells of one notebook, statement by statement, against    *)
(* a namespace and Pyro's parameter store.  Real numbers are fixed-point   *)
(* integers in hundredths (14. is 1400, 0.75 is 75); a random draw from a  *)
(* distribution is a choice among a few points of its support.             *)
(***************************************************************************)
EXTENDS Integers, Sequences, FiniteSets, TLC

VARIABLES
    nb,     \* the notebook this session runs: "intro", "bnn", or "api"
    cell,   \* index of the code cell being executed
    stmt,   \* index of the next statement of that cell
    loop,   \* iterations of the cell's for loop started so far
    exc,    \* the exception that ended the current cell, or "none"
    ns,     \* the kernel's namespace: name -> value
    store,  \* Pyro's parameter store: name -> tensor
    out,    \* what the last library call did (trace, return value, ...)
    out2    \* the second run of a side-by-side pair of runs

vars == <<nb, cell, stmt, loop, exc, ns, store, out, out2>>

--------------------------------------------------------------------------
(* Bounds of the model. *)

\* Draws of a standard normal are the integers -MaxEps..MaxEps.
MaxEps == 1
\* One optimiser step moves a parameter by at most MaxDelta grid points (of 1.0).
MaxDelta == 1
\* Iterations of the training loop that are run (the notebook asks for 2500).
NumSteps == 2

--------------------------------------------------------------------------
(* Values. *)

\* The float n.frac in hundredths.
Float(n, frac) == n * 100 + frac

T(v) == [k |-> "tensor", v |-> v]        \* torch.tensor(v)
F(v) == [k |-> "float", v |-> v]         \* a Python float
S(v) == [k |-> "str", v |-> v]           \* a Python str
Obj(kind) == [k |-> kind]                \* an object no statement looks into
None == [k |-> "none"]
NoNote == [op |-> "none"]                \* no library call made yet
NoData == <<>>                           \* the empty dict

\* tensor.item(): the Python number held by a one-element tensor.
Item(t) == F(t.v)

Abs(x) == IF x < 0 THEN -x ELSE x

Eps == -MaxEps .. MaxEps
Coin == {0, 1}
\* The noise one run of a function may consume: a coin and two normal draws.
Noise == [c : Coin, e1 : Eps, e2 : Eps]
\* The noise of a run that draws its one latent site.
Noise1 == [c : {0}, e1 : Eps, e2 : {0}]

--------------------------------------------------------------------------
(* Distributions. *)

Normal(loc, scale) == [family |-> "Normal", params |-> <<loc, scale>>]
Bernoulli(p) == [family |-> "Bernoulli", params |-> <<p>>]

\* The constructor's argument check: a Normal needs a positive scale.
DistOK(d) == d.family = "Normal" => d.params[2] > 0

\* One draw: loc + eps * scale for a Normal, 0. or 1. for a Bernoulli.
Draw(d, c, e) ==
    IF d.family = "Normal" THEN d.params[1] + e * d.params[2]
    ELSE Float(c, 0)

--------------------------------------------------------------------------
(* Pyro's primitives. *)

\* Handlers around a running model: the observations of pyro.condition and
\* the values replayed from a guide's trace.
Handlers(data, replay) == [data |-> data, replay |-> replay]

\* pyro.sample(name, d, obs=obs): the site the statement records.
PyroSample(name, d, obs, h, drawn) ==
    IF obs.k # "none"
    THEN [name |-> name, dist |-> d, value |-> obs, is_observed |-> TRUE]
    ELSE IF name \in DOMAIN h.data
    THEN [name |-> name, dist |-> d, value |-> h.data[name], is_observed |-> TRUE]
    ELSE IF name \in DOMAIN h.replay
    THEN [name |-> name, dist |-> d, value |-> h.replay[name], is_observed |-> FALSE]
    ELSE [name |-> name, dist |-> d, value |-> T(drawn), is_observed |-> FALSE]

PyroParamLastWins(st, name, init) ==
    IF init.k = "none"
    THEN IF name \in DOMAIN st
         THEN [store |-> st, value |-> st[name], exc |-> "none"]
         ELSE [store |-> st, value |-> None, exc |-> "KeyError"]
    ELSE [store |-> (name :> init) @@ st, value |-> init, exc |-> "none"]

\* pyro.param(name, init): a front end of the key-value parameter store.
PyroParam(st, name, init) ==
    IF name \in DOMAIN st
    THEN [store |-> st, value |-> st[name], exc |-> "none"]
    ELSE IF init.k = "none"
    THEN [store |-> st, value |-> None, exc |-> "KeyError"]
    ELSE [store |-> (name :> init) @@ st, value |-> init, exc |-> "none"]

ClearKeepsParams(st) == st

\* pyro.clear_param_store()
ClearParamStore(st) == NoData

ConditionIgnoresData(fv, data) == fv

\* pyro.condition(fn, data=data): fn with the observations attached.
Condition(fv, data) == [fv EXCEPT !.data = data @@ fv.data]

\* def f(...): the function value a def statement binds.
Fn(name) == [k |-> "function", v |-> name, data |-> NoData]

--------------------------------------------------------------------------
(* The stochastic functions of the introduction notebook.  Each takes the  *)
(* handlers around the call, the parameter store and the noise it may      *)
(* consume, and yields its trace (the sample sites in order), the          *)
(* distributions it constructed, its return value and the store it leaves. *)

Result(fn, trace, dists, ret, st, e) ==
    [op |-> "call", fn |-> fn, trace |-> trace, dists |-> dists, ret |-> ret,
     store |-> st, exc |-> e]

\* The parameter names of a def: every function of the notebook takes none.
Params(fn) == <<>>

WeatherTypeInverted(cloudy) == IF cloudy.v = Float(1, 0) THEN "sunny" ELSE "cloudy"

\* 'cloudy' if cloudy.item() == 1.0 else 'sunny'
WeatherType(cloudy) == IF cloudy.v = Float(1, 0) THEN "cloudy" ELSE "sunny"

\* {'cloudy': 55.0, 'sunny': 75.0}[weather_type]
WeatherLoc(weather_type) ==
    IF weather_type = "cloudy" THEN Float(55, 0) ELSE Float(75, 0)

\* {'cloudy': 10.0, 'sunny': 15.0}[weather_type]
WeatherScale(weather_type) ==
    IF weather_type = "cloudy" THEN Float(10, 0) ELSE Float(15, 0)

Weather(h, st, u) ==
    LET prior == Bernoulli(30)
        cloudy == PyroSample("cloudy", prior, None, h, Draw(prior, u.c, 0))
        weather_type == WeatherType(cloudy.value)
        d == Normal(WeatherLoc(weather_type), WeatherScale(weather_type))
        temperature == PyroSample("temperature", d, None, h, Draw(d, 0, u.e1))
    IN  Result("weather", <<cloudy, temperature>>, <<prior, d>>,
               <<S(weather_type), temperature.value>>, st, "none")

\* 200. if weather_type == 'sunny' and temperature > 80.0 else 50.
ExpectedSales(weather_type, temperature) ==
    IF weather_type.v = "sunny" /\ temperature.v > Float(80, 0)
    THEN Float(200, 0) ELSE Float(50, 0)

\* The rest of ice_cream_sales once weather() has returned w.
IceCreamGiven(w, d, h, u) ==
    Result("ice_cream_sales",
           w.trace \o <<PyroSample("ice_cream", d, None, h, Draw(d, 0, u.e2))>>,
           w.dists \o <<d>>,
           <<w.ret[1], PyroSample("ice_cream", d, None, h, Draw(d, 0, u.e2)).value>>,
           w.store, "none")

IceCreamSalesOf(w, h, u) ==
    IceCreamGiven(w, Normal(ExpectedSales(w.ret[1], w.ret[2]), Float(10, 0)), h, u)

IceCreamSales(h, st, u) == IceCreamSalesOf(Weather(h, st, u), h, u)

Scale(h, st, u) ==
    LET prior == Normal(Float(10, 0), Float(1, 0))
        weight == PyroSample("weight", prior, None, h, Draw(prior, 0, u.e1))
        d == Normal(weight.value.v, Float(0, 75))
        measurement == PyroSample("measurement", d, None, h, Draw(d, 0, u.e2))
    IN  Result("scale", <<weight, measurement>>, <<prior, d>>,
               measurement.value, st, "none")

ScaleObsNoObs(h, st, u) == [Scale(h, st, u) EXCEPT !.fn = "scale_obs"]

ScaleObs(h, st, u) ==
    LET prior == Normal(Float(10, 0), Float(1, 0))
        weight == PyroSample("weight", prior, None, h, Draw(prior, 0, u.e1))
        d == Normal(weight.value.v, Float(0, 75))
        measurement ==
            PyroSample("measurement", d, F(Float(14, 0)), h, Draw(d, 0, u.e2))
    IN  Result("scale_obs", <<weight, measurement>>, <<prior, d>>,
               measurement.value, st, "none")

\* The guide with the initial value written in it used on every call.
GuideFromInit(h, st, u) ==
    LET a == T(Float(1, 0))
        b == T(Float(1, 0))
        st2 == ("b" :> b) @@ ("a" :> a) @@ st
        d == Normal(a.v, Abs(b.v))
        weight == PyroSample("weight", d, None, h, Draw(d, 0, u.e1))
    IN  Result("guide", <<weight>>, <<d>>, weight.value, st2, "none")

\* The guide sampling the observed site instead of the latent one.
GuideWrongSite(h, st, u) ==
    LET a == PyroParam(st, "a", T(Float(1, 0)))
        b == PyroParam(a.store, "b", T(Float(1, 0)))
        d == Normal(a.value.v, Abs(b.value.v))
        site == PyroSample("measurement", d, None, h, Draw(d, 0, u.e1))
    IN  IF DistOK(d)
        THEN Result("guide", <<site>>, <<d>>, site.value, b.store, "none")
        ELSE Result("guide", <<>>, <<d>>, None, b.store, "ValueError")

Guide(h, st, u) ==
    LET a == PyroParam(st, "a", T(Float(1, 0)))
        b == PyroParam(a.store, "b", T(Float(1, 0)))
        d == Normal(a.value.v, Abs(b.value.v))
        weight == PyroSample("weight", d, None, h, Draw(d, 0, u.e1))
    IN  IF DistOK(d)
        THEN Result("guide", <<weight>>, <<d>>, weight.value, b.store, "none")
        ELSE Result("guide", <<>>, <<d>>, None, b.store, "ValueError")

\* Calling a function value: the body its def gave it, under its handlers.
CallFn(fv, replay, st, u) ==
    LET h == Handlers(fv.data, replay)
    IN  CASE fv.v = "weather" -> Weather(h, st, u)
          [] fv.v = "ice_cream_sales" -> IceCreamSales(h, st, u)
          [] fv.v = "scale" -> Scale(h, st, u)
          [] fv.v = "scale_obs" -> ScaleObs(h, st, u)
          [] fv.v = "guide" -> Guide(h, st, u)

\* The values a trace holds, by site name (what replay hands to the model).
TraceValues(trace) ==
    [n \in {trace[i].name : i \in 1..Len(trace)} |->
        trace[CHOOSE i \in 1..Len(trace) : trace[i].name = n].value]

--------------------------------------------------------------------------
(* Inference objects. *)

\* warmup_steps=50 and num_samples=1000 of the MCMC(...) call.
WarmupSteps == 50
NumSamples == 1000

\* HMC(model, ...): the kernel remembers the model it was given.
HMC(model) == [k |-> "HMC", model |-> model]

\* MCMC(kernel, num_samples=.., warmup_steps=..), before run().
MCMC(kernel, num_samples, warmup_steps) ==
    [k |-> "MCMC", kernel |-> kernel, num_samples |-> num_samples,
     warmup_steps |-> warmup_steps, phase |-> "new", i |-> 0, z |-> NoData,
     samples |-> NoData]

\* The draws collected for one site: how many, and the first and the last
\* step that produced one (steps are consecutive; values are not carried).
NoDraws == [n |-> 0, first |-> 0, last |-> 0]

Collect(ds, i) ==
    [n |-> ds.n + 1, first |-> IF ds.n = 0 THEN i ELSE ds.first, last |-> i]

\* The sites HMC samples: the sample sites of the model that are not observed.
LatentSites(trace) ==
    {trace[j].name : j \in {j \in 1..Len(trace) : ~trace[j].is_observed}}

\* run(), set-up: one execution of the model finds the latent sites and the
\* chain's first state; nothing has been collected.
McmcSetup(mc, r) ==
    [mc EXCEPT !.phase = "running", !.i = 0,
               !.z = [n \in LatentSites(r.trace) |-> TraceValues(r.trace)[n]],
               !.samples = [n \in LatentSites(r.trace) |-> NoDraws]]

\* Warm-up draws are kept as well.
McmcKeepAll(mc) == TRUE

\* A transition of the chain is kept once the warm-up steps are over.
McmcKeep(mc) == mc.i >= mc.warmup_steps

\* run(), one transition: the proposal is accepted or rejected; a kept
\* transition is recorded by the step that produced it (its value is the
\* chain's state z and is not carried in the record).
McmcStep(mc, proposal, accept) ==
    [mc EXCEPT !.i = mc.i + 1,
               !.z = IF accept
                     THEN [n \in DOMAIN mc.z |-> TraceValues(proposal.trace)[n]]
                     ELSE mc.z,
               !.samples = IF McmcKeep(mc)
                           THEN [n \in DOMAIN mc.samples |->
                                    Collect(mc.samples[n], mc.i)]
                           ELSE mc.samples]

\* run() is over after warmup_steps + num_samples transitions.
McmcDone(mc) == mc.i >= mc.warmup_steps + mc.num_samples

\* run() returns: the chain's working state is dropped, the draws stay.
McmcFinish(mc) == [mc EXCEPT !.phase = "done", !.z = NoData]

\* get_samples(): the dictionary of kept draws, by site.
GetSamples(mc) == [k |-> "dict", v |-> mc.samples]

\* SVI(model=.., guide=.., optim=.., loss=..)
SVI(model, guide) == [k |-> "SVI", model |-> model, guide |-> guide]

\* The pyro.param sites of a function: what the optimiser is handed.
ParamSites(fv) == IF fv.v = "guide" THEN {"a", "b"} ELSE {}

Deltas == -MaxDelta .. MaxDelta

\* The optimiser's update: each parameter the step touched moves by the
\* (data-dependent) amount the gradient gives it.
OptimStep(st, names, delta) ==
    [n \in DOMAIN st |->
        IF n \in names THEN T(st[n].v + Float(delta[n], 0)) ELSE st[n]]

\* svi.step(): run the guide, replay its draws through the model, take one
\* optimiser step on the parameters seen, return the loss estimate.
SviUpdate(svi, st, delta, g, m) ==
    [op |-> "svi.step", guide |-> g, model |-> m, before |-> st,
     store |-> OptimStep(m.store, ParamSites(svi.guide) \cup ParamSites(svi.model),
                         delta),
     ret |-> Obj("float"), exc |-> m.exc]

SviModel(svi, st, u, delta, g) ==
    IF g.exc # "none"
    THEN [op |-> "svi.step", guide |-> g, model |-> g, before |-> st,
          store |-> g.store, ret |-> None, exc |-> g.exc]
    ELSE SviUpdate(svi, st, delta, g,
                   CallFn(svi.model, TraceValues(g.trace), g.store, u))

SviStep(svi, st, u, delta) ==
    SviModel(svi, st, u, delta, CallFn(svi.guide, NoData, st, u))

--------------------------------------------------------------------------
(* The notebooks: code cells in file order, each a sequence of statements. *)
(* A statement names what it does (op), the names it reads, the names it   *)
(* binds and its literal arguments.                                        *)

St(op, reads, binds, arg) == [op |-> op, reads |-> reads, binds |-> binds, arg |-> arg]

Import(names) == St("bind", {}, names, [j \in 1..Len(names) |-> Obj("module")])
Assign(name, reads, val) == St("bind", reads, <<name>>, <<val>>)
Def(name) == St("bind", {}, <<name>>, <<Fn(name)>>)
Expr(reads) == St("bind", reads, <<>>, <<>>)
Cell(body) == [ok |-> TRUE, body |-> body]
\* A cell Python cannot compile: none of its statements runs.
BadCell(body) == [ok |-> FALSE, body |-> body]

IntroCells == <<
    Cell(<< Import(<<"torch">>), Import(<<"pyro">>), Expr({"pyro"}) >>),
    Cell(<< Assign("loc", {}, F(Float(0, 0))),
            Assign("scale", {}, F(Float(1, 0))),
            St("mkdist", {"torch", "loc", "scale"}, <<"normal">>, None),
            St("rsample", {"normal"}, <<"x">>, None),
            Expr({"x"}) >>),
    Cell(<< Import(<<"dist">>),
            St("sample", {"pyro", "loc", "scale"}, <<"x">>, "my_sample"),
            Expr({"x"}) >>),
    Cell(<< Def("weather"),
            St("for", {}, <<"_">>, <<3, 6>>),
            St("call", {"weather"}, <<"weather_type", "temperature">>, "weather"),
            Expr({"weather_type", "temperature"}),
            St("endfor", {}, <<>>, 2) >>),
    Cell(<< Def("ice_cream_sales"),
            St("call", {"ice_cream_sales"}, <<>>, "ice_cream_sales") >>),
    Cell(<< Import(<<"plt">>) >>),
    Cell(<< Def("scale"), St("call", {"scale"}, <<>>, "scale") >>),
    Cell(<< St("condition", {"pyro", "scale", "torch"}, <<"conditioned_scale">>,
               <<"scale", "measurement" :> T(Float(14, 0))>>) >>),
    Cell(<< Def("scale_obs") >>),
    Cell(<< Import(<<"MCMC">>), Import(<<"HMC">>),
            St("hmc", {"HMC", "conditioned_scale"}, <<"hmc_kernel">>, "conditioned_scale"),
            St("mcmc", {"MCMC", "hmc_kernel"}, <<"sampler">>, "hmc_kernel"),
            St("run", {"sampler"}, <<>>, "sampler"),
            Expr({"sampler"}) >>),
    Cell(<< St("get_samples", {"sampler"}, <<"posterior">>, "sampler"),
            Expr({"posterior"}) >>),
    Cell(<< Def("guide") >>),
    Cell(<< St("param", {"pyro", "torch"}, <<"a">>, <<"new_param", T(Float(1, 0))>>),
            Expr({"a"}) >>),
    Cell(<< Import(<<"np">>), Expr({}), Expr({}), Expr({"np"}) >>),
    Cell(<< St("param", {"pyro", "torch"}, <<"a">>, <<"new_param", T(Float(10, 0))>>),
            Expr({"a"}),
            St("clear", {"pyro"}, <<>>, None),
            St("param", {"pyro", "torch"}, <<"a">>, <<"new_param", T(Float(10, 0))>>),
            Expr({"a"}) >>),
    Cell(<< Import(<<"SVI", "Trace_ELBO">>), Import(<<"SGD">>),
            St("clear", {"pyro"}, <<>>, None),
            St("svi", {"SVI", "conditioned_scale", "guide", "SGD", "Trace_ELBO"},
               <<"svi">>, <<"conditioned_scale", "guide">>),
            St("bind", {}, <<"losses", "a", "b">>,
               <<[k |-> "list", v |-> <<>>], [k |-> "list", v |-> <<>>],
                 [k |-> "list", v |-> <<>>]>>),
            Assign("num_steps", {}, [k |-> "int", v |-> NumSteps]),
            St("for", {"num_steps"}, <<"i">>, <<NumSteps, 12>>),
            St("step", {"losses", "svi"}, <<>>, <<"losses", "svi">>),
            St("append_param", {"a", "pyro"}, <<>>, <<"a", "a">>),
            St("append_param", {"b", "pyro"}, <<>>, <<"b", "b">>),
            St("endfor", {}, <<>>, 7),
            St("last", {"a"}, <<>>, "a"),
            St("last", {"b"}, <<>>, "b") >>),
    Cell(<< >>),
    Cell(<< >>)
>>

BnnCells == <<
    Cell(<< Import(<<"os">>), Import(<<"Image">>), Import(<<"np">>),
            Import(<<"plt">>), Import(<<"torch">>), Import(<<"Dataset">>),
            Import(<<"DataLoader">>), Import(<<"datasets", "transforms">>),
            Import(<<"pyro">>), Import(<<"dist">>),
            Import(<<"SVI", "Trace_ELBO">>), Import(<<"Adam">>),
            Expr({"pyro"}) >>),
    Cell(<< St("env", {"datasets", "transforms"}, <<"train_dataset">>,
               <<"IOError", <<Obj("MNIST")>> >>),
            St("env", {"datasets", "transforms"}, <<"test_dataset">>,
               <<"IOError", <<Obj("MNIST")>> >>),
            Assign("train_loader", {"torch", "train_dataset"}, Obj("DataLoader")),
            Assign("test_loader", {"torch", "test_dataset"}, Obj("DataLoader")) >>),
    Cell(<< >>),
    Cell(<< St("bind", {"torch"}, <<"NN">>, <<Obj("class")>>),
            Assign("nn", {"NN"}, Obj("NN")) >>),
    Cell(<< Assign("loss_function", {"torch"}, Obj("NLLLoss")),
            Assign("optimizer", {"torch", "nn"}, Obj("Adam")),
            Assign("num_epochs", {}, [k |-> "int", v |-> 5]) >>),
    Cell(<< Assign("letters", {}, [k |-> "list",
                v |-> <<"a", "b", "c", "d", "e", "f", "g", "h", "i", "j">>]),
            St("env", {"np", "Image", "letters"}, <<"x_letters">>,
               <<"FileNotFoundError", <<Obj("ndarray")>> >>),
            Assign("x_letters", {"x_letters", "np"}, Obj("ndarray")),
            Assign("x_letters", {"torch", "x_letters"}, Obj("tensor")),
            Expr({"plt"}),
            St("for", {}, <<"iplot", "i">>, <<4, 11>>),
            Expr({"plt", "iplot"}),
            Expr({"plt", "x_letters", "i"}),
            Expr({"plt", "letters", "i"}),
            St("endfor", {}, <<>>, 6),
            Expr({"plt"}) >>),
    Cell(<< >>),
    Cell(<< St("bind", {"pyro", "torch"}, <<"PyroLinear">>, <<Obj("class")>>),
            St("bind", {"pyro"}, <<"BNN">>, <<Obj("class")>>),
            Assign("bnn", {"BNN"}, Fn("bnn")) >>),
    BadCell(<< Def("guide") >>),
    Cell(<< >>),
    Cell(<< St("clear", {"pyro"}, <<>>, None),
            St("svi", {"SVI", "bnn", "guide", "Adam", "Trace_ELBO"},
               <<"svi">>, <<"bnn", "guide">>),
            Assign("num_epochs", {}, [k |-> "int", v |-> 5]) >>),
    Cell(<< >>),
    Cell(<< >>),
    Cell(<< >>)
>>

Cells == IF nb = "bnn" THEN BnnCells ELSE IntroCells

--------------------------------------------------------------------------
(* The kernel: one statement at a time, top to bottom. *)

InNotebook == nb \in {"intro", "bnn"} /\ cell <= Len(Cells)
Body == Cells[cell].body
Running == InNotebook /\ Cells[cell].ok /\ exc = "none" /\ stmt <= Len(Body)
Cur == Body[stmt]
\* The statement at hand is an `op` whose names are all bound.
At(op) == Running /\ Cur.op = op /\ Cur.reads \subseteq DOMAIN ns

\* ns with names[j] bound to vals[j].
Bound(names, vals) ==
    [n \in {names[j] : j \in 1..Len(names)} |->
        vals[CHOOSE j \in 1..Len(names) : names[j] = n]] @@ ns

\* Control after a statement: on to the next one, or the exception is raised.
Goto(e) ==
    IF e = "none" THEN stmt' = stmt + 1 /\ exc' = "none"
    ELSE stmt' = stmt /\ exc' = e

Note(r) == out' = r /\ out2' = out

\* f() was called and did r.
CallNote(f, r) == [op |-> "call", callee |-> f, run |-> r]

UnwindSwallow(c, s) == [cell |-> c, stmt |-> s + 1]

\* Where control goes when a statement raises: no cell has a try statement,
\* so the exception leaves the cell and the session is at the next cell.
Unwind(c, s) == [cell |-> c + 1, stmt |-> 1]

\* An uncaught exception ends the cell.
Propagate ==
    /\ InNotebook /\ exc # "none"
    /\ cell' = Unwind(cell, stmt).cell
    /\ stmt' = Unwind(cell, stmt).stmt
    /\ exc' = "none" /\ loop' = 0 /\ out' = NoNote /\ out2' = NoNote
    /\ UNCHANGED <<nb, ns, store>>

\* The cell ran to its end: the next cell is run.
NextCell ==
    /\ InNotebook /\ Cells[cell].ok /\ exc = "none" /\ stmt > Len(Body)
    /\ cell' = cell + 1 /\ stmt' = 1 /\ loop' = 0 /\ out' = NoNote /\ out2' = NoNote
    /\ UNCHANGED <<nb, exc, ns, store>>

\* A cell that does not compile raises before any of its statements runs.
SyntaxErr ==
    /\ InNotebook /\ ~Cells[cell].ok /\ exc = "none"
    /\ exc' = "SyntaxError"
    /\ UNCHANGED <<nb, cell, stmt, loop, ns, store, out, out2>>

\* A statement that reads an unbound name raises NameError.
NameErr ==
    /\ Running /\ ~(Cur.reads \subseteq DOMAIN ns)
    /\ exc' = "NameError"
    /\ UNCHANGED <<nb, cell, stmt, loop, ns, store, out, out2>>

\* import, def, class, literal assignment, a bare expression or a print.
BindStmt ==
    /\ At("bind")
    /\ ns' = Bound(Cur.binds, Cur.arg)
    /\ Goto("none")
    /\ UNCHANGED <<nb, cell, loop, store, out, out2>>

\* A call that depends on files or the network: it returns or it raises.
EnvStmt ==
    /\ At("env")
    /\ \E ok \in BOOLEAN :
        IF ok THEN ns' = Bound(Cur.binds, Cur.arg[2]) /\ Goto("none")
        ELSE ns' = ns /\ Goto(Cur.arg[1])
    /\ UNCHANGED <<nb, cell, loop, store, out, out2>>

\* for v in range(n): the next iteration, or past the loop.
ForStmt ==
    /\ At("for")
    /\ IF loop < Cur.arg[1]
       THEN /\ ns' = Bound(Cur.binds, [j \in 1..Len(Cur.binds) |-> [k |-> "int", v |-> loop]])
            /\ loop' = loop + 1 /\ stmt' = stmt + 1
       ELSE ns' = ns /\ loop' = 0 /\ stmt' = Cur.arg[2]
    /\ UNCHANGED <<nb, cell, exc, store, out, out2>>

\* The end of a loop body: back to the loop's head.
EndFor ==
    /\ At("endfor")
    /\ stmt' = Cur.arg
    /\ UNCHANGED <<nb, cell, loop, exc, ns, store, out, out2>>

\* normal = torch.distributions.Normal(loc, scale)
MkDist ==
    /\ At("mkdist")
    /\ LET d == Normal(ns["loc"].v, ns["scale"].v)
       IN  IF DistOK(d)
           THEN ns' = Bound(Cur.binds, <<[k |-> "dist", d |-> d]>>) /\ Goto("none")
           ELSE ns' = ns /\ Goto("ValueError")
    /\ UNCHANGED <<nb, cell, loop, store, out, out2>>

\* x = normal.rsample()
RSample ==
    /\ At("rsample")
    /\ \E u \in Noise :
        Note([op |-> "rsample", value |-> T(Draw(ns["normal"].d, u.c, u.e1))])
    /\ ns' = Bound(Cur.binds, <<Obj("tensor")>>)
    /\ Goto("none")
    /\ UNCHANGED <<nb, cell, loop, store>>

\* x = pyro.sample("my_sample", pyro.distributions.Normal(loc, scale))
SampleStmt ==
    /\ At("sample")
    /\ LET d == Normal(ns["loc"].v, ns["scale"].v)
       IN  \E u \in Noise :
            Note([op |-> "sample",
                  site |-> PyroSample(Cur.arg, d, None, Handlers(NoData, NoData),
                                      Draw(d, u.c, u.e1))])
    /\ ns' = Bound(Cur.binds, <<Obj("tensor")>>)
    /\ Goto("none")
    /\ UNCHANGED <<nb, cell, loop, store>>

\* What the targets of `a, b = f()` or of `f()` are bound to: a str keeps
\* its value, a drawn tensor is bound as a tensor.
Targets(binds, ret) ==
    [j \in 1..Len(binds) |-> IF ret[j].k = "str" THEN ret[j] ELSE Obj("tensor")]

\* f() for a stochastic function f of the notebook.
CallStmt ==
    /\ At("call")
    /\ \E u \in Noise :
        \E r \in {CallFn(ns[Cur.arg], NoData, store, u)} :
            /\ Note(CallNote(Cur.arg, r))
            /\ store' = r.store
            /\ ns' = IF r.exc = "none" THEN Bound(Cur.binds, Targets(Cur.binds, r.ret))
                     ELSE ns
            /\ Goto(r.exc)
    /\ UNCHANGED <<nb, cell, loop>>

\* conditioned_scale = pyro.condition(scale, data={...})
ConditionStmt ==
    /\ At("condition")
    /\ ns' = Bound(Cur.binds, <<Condition(ns[Cur.arg[1]], Cur.arg[2])>>)
    /\ Goto("none")
    /\ UNCHANGED <<nb, cell, loop, store, out, out2>>

ParamNote(name, init, r) ==
    [op |-> "param", name |-> name, init |-> init, before |-> store,
     ret |-> r.value, exc |-> r.exc]

\* a = pyro.param(name, init)
ParamStmt ==
    /\ At("param")
    /\ LET r == PyroParam(store, Cur.arg[1], Cur.arg[2])
       IN  /\ Note(ParamNote(Cur.arg[1], Cur.arg[2], r))
           /\ store' = r.store
           /\ ns' = IF r.exc = "none" THEN Bound(Cur.binds, <<r.value>>) ELSE ns
           /\ Goto(r.exc)
    /\ UNCHANGED <<nb, cell, loop>>

\* pyro.clear_param_store()
ClearStmt ==
    /\ At("clear")
    /\ Note([op |-> "clear", before |-> store])
    /\ store' = ClearParamStore(store)
    /\ Goto("none")
    /\ UNCHANGED <<nb, cell, loop, ns>>

\* hmc_kernel = HMC(conditioned_scale, step_size=0.9, num_steps=4)
HmcStmt ==
    /\ At("hmc")
    /\ ns' = Bound(Cur.binds, <<HMC(ns[Cur.arg])>>)
    /\ Goto("none")
    /\ UNCHANGED <<nb, cell, loop, store, out, out2>>

\* sampler = MCMC(hmc_kernel, num_samples=1000, warmup_steps=50)
McmcStmt ==
    /\ At("mcmc")
    /\ ns' = Bound(Cur.binds, <<MCMC(ns[Cur.arg], NumSamples, WarmupSteps)>>)
    /\ Goto("none")
    /\ UNCHANGED <<nb, cell, loop, store, out, out2>>

\* sampler.run() begins: the kernel's set-up runs the model once.
RunStart ==
    /\ At("run") /\ ns[Cur.arg].phase # "running"
    /\ \E u \in Noise1 :
        \E r \in {CallFn(ns[Cur.arg].kernel.model, NoData, store, u)} :
            /\ Note(CallNote("kernel.model", r))
            /\ ns' = [ns EXCEPT ![Cur.arg] = McmcSetup(@, r)]
    /\ UNCHANGED <<nb, cell, stmt, loop, exc, store>>

\* sampler.run(), one transition of the chain.
RunStep ==
    /\ At("run") /\ ns[Cur.arg].phase = "running" /\ ~McmcDone(ns[Cur.arg])
    /\ \E u \in Noise1, accept \in BOOLEAN :
        \E proposal \in {CallFn(ns[Cur.arg].kernel.model, NoData, store, u)} :
            ns' = [ns EXCEPT ![Cur.arg] = McmcStep(@, proposal, accept)]
    /\ UNCHANGED <<nb, cell, stmt, loop, exc, store, out, out2>>

\* sampler.run() returns.
RunEnd ==
    /\ At("run") /\ ns[Cur.arg].phase = "running" /\ McmcDone(ns[Cur.arg])
    /\ ns' = [ns EXCEPT ![Cur.arg] = McmcFinish(@)]
    /\ Goto("none")
    /\ UNCHANGED <<nb, cell, loop, store, out, out2>>

\* posterior = sampler.get_samples()
GetSamplesStmt ==
    /\ At("get_samples")
    /\ ns' = Bound(Cur.binds, <<GetSamples(ns[Cur.arg])>>)
    /\ Goto("none")
    /\ UNCHANGED <<nb, cell, loop, store, out, out2>>

\* svi = SVI(model=.., guide=.., optim=.., loss=..)
SviStmt ==
    /\ At("svi")
    /\ ns' = Bound(Cur.binds, <<SVI(ns[Cur.arg[1]], ns[Cur.arg[2]])>>)
    /\ Goto("none")
    /\ UNCHANGED <<nb, cell, loop, store, out, out2>>

\* losses.append(svi.step())
StepStmt ==
    /\ At("step")
    /\ \E u \in Noise1, delta \in [{"a", "b"} -> Deltas] :
        \E r \in {SviStep(ns[Cur.arg[2]], store, u, delta)} :
            /\ Note(r)
            /\ store' = r.store
            /\ ns' = IF r.exc = "none"
                     THEN [ns EXCEPT ![Cur.arg[1]].v = Append(@, r.ret)]
                     ELSE ns
            /\ Goto(r.exc)
    /\ UNCHANGED <<nb, cell, loop>>

\* a.append(pyro.param("a").item())
AppendParam ==
    /\ At("append_param")
    /\ LET r == PyroParam(store, Cur.arg[2], None)
       IN  /\ Note(ParamNote(Cur.arg[2], None, r))
           /\ store' = r.store
           /\ ns' = IF r.exc = "none"
                    THEN [ns EXCEPT ![Cur.arg[1]].v = Append(@, Item(r.value))]
                    ELSE ns
           /\ Goto(r.exc)
    /\ UNCHANGED <<nb, cell, loop>>

\* print('a = ', a[-1])
LastStmt ==
    /\ At("last")
    /\ Goto(IF Len(ns[Cur.arg].v) = 0 THEN "IndexError" ELSE "none")
    /\ UNCHANGED <<nb, cell, loop, ns, store, out, out2>>

Init ==
    /\ nb \in {"intro", "bnn"}
    /\ cell = 1 /\ stmt = 1 /\ loop = 0 /\ exc = "none"
    /\ ns = NoData /\ store = NoData
    /\ out = NoNote /\ out2 = NoNote

Next ==
    \/ Propagate \/ NextCell \/ SyntaxErr \/ NameErr
    \/ BindStmt \/ EnvStmt \/ ForStmt \/ EndFor
    \/ MkDist \/ RSample \/ SampleStmt \/ CallStmt \/ ConditionStmt
    \/ ParamStmt \/ ClearStmt
    \/ HmcStmt \/ McmcStmt \/ RunStart \/ RunStep \/ RunEnd \/ GetSamplesStmt
    \/ SviStmt \/ StepStmt \/ AppendParam \/ LastStmt

Spec == Init /\ [][Next]_vars

\* The kernel is single-threaded and synchronous: while a statement can run,
\* it does.
FairSpec == Spec /\ WF_vars(Next)

--------------------------------------------------------------------------
(* The functions and the parameter store applied to arbitrary inputs: a    *)
(* session in which the definitions of the introduction notebook exist.    *)
(* Under FnSpec the stochastic functions are called in any order with any  *)
(* noise; under StoreSpec pyro.param, pyro.clear_param_store and the guide *)
(* (the function that calls pyro.param) are.                               *)

\* The names the def cells and the pyro.condition cell bind.
ApiNs ==
    [n \in {"weather", "ice_cream_sales", "scale", "conditioned_scale",
            "scale_obs", "guide"} |->
        IF n = "conditioned_scale"
        THEN Condition(Fn("scale"), "measurement" :> T(Float(14, 0)))
        ELSE Fn(n)]

ParamNames == {"a", "b", "new_param"}
\* The initial values the notebook passes to pyro.param, and none.
ParamInits == {T(Float(1, 0)), T(Float(10, 0)), None}

ApiCall ==
    /\ nb = "api"
    /\ \E f \in DOMAIN ns \ {"guide"}, u \in Noise :
        \E r \in {CallFn(ns[f], NoData, store, u)} :
            /\ Note(CallNote(f, r))
            /\ store' = r.store
    /\ UNCHANGED <<nb, cell, stmt, loop, exc, ns>>

ApiGuide ==
    /\ nb = "api"
    /\ \E u \in Noise1 :
        \E r \in {CallFn(ns["guide"], NoData, store, u)} :
            /\ Note(CallNote("guide", r))
            /\ store' = r.store
    /\ UNCHANGED <<nb, cell, stmt, loop, exc, ns>>

ApiParam ==
    /\ nb = "api"
    /\ \E name \in ParamNames, init \in ParamInits :
        \E r \in {PyroParam(store, name, init)} :
            /\ Note(ParamNote(name, init, r))
            /\ store' = r.store
    /\ UNCHANGED <<nb, cell, stmt, loop, exc, ns>>

ApiClear ==
    /\ nb = "api"
    /\ Note([op |-> "clear", before |-> store])
    /\ store' = ClearParamStore(store)
    /\ UNCHANGED <<nb, cell, stmt, loop, exc, ns>>

ApiInit ==
    /\ nb = "api"
    /\ cell = 1 /\ stmt = 1 /\ loop = 0 /\ exc = "none"
    /\ ns = ApiNs /\ store = NoData
    /\ out = NoNote /\ out2 = NoNote

FnNext == ApiCall

FnSpec == ApiInit /\ [][FnNext]_vars

StoreNext == ApiParam \/ ApiClear \/ ApiGuide

StoreSpec == ApiInit /\ [][StoreNext]_vars

\* The inference cells on their own: the cell that builds and runs the sampler
\* and the cell that fetches the posterior, started with the notebook's
\* functions defined.
SamplerCell ==
    CHOOSE c \in 1..Len(IntroCells) :
        \E j \in 1..Len(IntroCells[c].body) : IntroCells[c].body[j].op = "run"

SamplerInit ==
    /\ nb = "intro"
    /\ cell = SamplerCell /\ stmt = 1 /\ loop = 0 /\ exc = "none"
    /\ ns = ApiNs /\ store = NoData
    /\ out = NoNote /\ out2 = NoNote

SamplerNext ==
    /\ cell \in {SamplerCell, SamplerCell + 1}
    /\ \/ BindStmt \/ NextCell
       \/ HmcStmt \/ McmcStmt \/ RunStart \/ RunStep \/ RunEnd \/ GetSamplesStmt

SamplerSpec == SamplerInit /\ [][SamplerNext]_vars

\* The kernel keeps executing the cell it was asked to run.
SamplerFairSpec == SamplerSpec /\ WF_vars(SamplerNext)

(* The letters cell of the BNN notebook, on arbitrary images. *)

\* An image has NumPixels pixels (its rows laid end to end), each 0..MaxPixel
\* as read from an 8-bit PNG.
NumPixels == 2
MaxPixel == 2

\* letters = ["a", ..., "j"]
Letters == <<"a", "b", "c", "d", "e", "f", "g", "h", "i", "j">>

Images == [1..NumPixels -> 0..MaxPixel]

\* np.array([... Image.open(...) for l in letters]).astype(np.float32): one
\* image per letter. All files hold the image bg but one, which holds odd.
LoadLetters(bg, odd, k) ==
    [k |-> "ndarray", v |-> [i \in 1..Len(Letters) |-> IF i = k THEN odd ELSE bg]]

\* np.max(x, axis=(1,2), keepdims=True): the largest pixel of image i.
NpMax(x, i) ==
    CHOOSE m \in {x[i][p] : p \in 1..Len(x[i])} :
        \A p \in 1..Len(x[i]) : x[i][p] <= m

\* Floating-point division x / m, kept as the fraction. 0/0 is nan, x/0 is
\* inf; neither raises.
Divide(x, m) ==
    IF m # 0 THEN [k |-> "finite", num |-> x, den |-> m]
    ELSE IF x = 0 THEN [k |-> "nan", num |-> 0, den |-> 0]
    ELSE [k |-> "inf", num |-> x, den |-> 0]

\* x_letters /= np.max(x_letters, axis=(1,2), keepdims=True)
Normalise(x) ==
    [i \in 1..Len(x) |-> [p \in 1..Len(x[i]) |-> Divide(x[i][p], NpMax(x, i))]]

\* torch.from_numpy(x): the same values as a tensor.
FromNumpy(a) == [k |-> "tensor", v |-> a.v]

\* enumerate([0,1,2,3])
PlotIndices == <<0, 1, 2, 3>>

\* plt.figure(...)
Figure == [op |-> "figure", subplots |-> <<>>, shown |-> FALSE]

\* plt.subplot(1,4,iplot+1); plt.imshow(x_letters[i].numpy());
\* plt.title(letters[i]), for the iplot-th entry i of the list (Python
\* indices start at 0).
Subplot(fig, x, iplot) ==
    [fig EXCEPT !.subplots =
        Append(@, [pos |-> iplot + 1,
                   image |-> x[PlotIndices[iplot + 1] + 1],
                   title |-> Letters[PlotIndices[iplot + 1] + 1]])]

LettersInit ==
    /\ nb = "letters"
    /\ cell = 1 /\ stmt = 1 /\ loop = 0 /\ exc = "none"
    /\ \E bg \in Images, odd \in Images, k \in 1..Len(Letters) :
        ns = ("letters" :> [k |-> "list", v |-> Letters])
             @@ ("x_letters" :> LoadLetters(bg, odd, k))
    /\ store = NoData
    /\ out = NoNote /\ out2 = NoNote

\* x_letters /= np.max(x_letters, axis=(1,2), keepdims=True)
LettersNormalise ==
    /\ nb = "letters" /\ stmt = 1
    /\ ns' = [ns EXCEPT !["x_letters"].v = Normalise(@)]
    /\ stmt' = 2
    /\ UNCHANGED <<nb, cell, loop, exc, store, out, out2>>

\* x_letters = torch.from_numpy(x_letters); plt.figure(figsize=(14,3))
LettersFigure ==
    /\ nb = "letters" /\ stmt = 2
    /\ ns' = [ns EXCEPT !["x_letters"] = FromNumpy(@)]
    /\ Note(Figure)
    /\ stmt' = 3
    /\ UNCHANGED <<nb, cell, loop, exc, store>>

\* One pass of the plotting loop.
LettersPlot ==
    /\ nb = "letters" /\ stmt = 3 /\ loop < Len(PlotIndices)
    /\ out' = Subplot(out, ns["x_letters"].v, loop)
    /\ loop' = loop + 1
    /\ UNCHANGED <<nb, cell, stmt, exc, ns, store, out2>>

\* plt.show()
LettersShow ==
    /\ nb = "letters" /\ stmt = 3 /\ loop = Len(PlotIndices)
    /\ out' = [out EXCEPT !.shown = TRUE]
    /\ stmt' = 4
    /\ UNCHANGED <<nb, cell, loop, exc, ns, store, out2>>

LettersNext == LettersNormalise \/ LettersFigure \/ LettersPlot \/ LettersShow

LettersSpec == LettersInit /\ [][LettersNext]_vars

--------------------------------------------------------------------------
(* Properties. *)

Sites(trace) == {trace[j].name : j \in 1..Len(trace)}
Observed(trace) == {trace[j].name : j \in {j \in 1..Len(trace) : trace[j].is_observed}}

\* C1: pyro.param is first-call-wins. A call pyro.param(name, v) for a name
\* the store does not hold stores v and returns it; a call for a name the
\* store holds returns the stored value and leaves the store as it was,
\* whatever v is.
ParamFirstCallWins ==
    (out.op = "param" /\ out.init.k # "none") =>
        IF out.name \in DOMAIN out.before
        THEN out.exc = "none" /\ out.ret = out.before[out.name] /\ store = out.before
        ELSE /\ out.exc = "none" /\ out.ret = out.init
             /\ DOMAIN store = DOMAIN out.before \cup {out.name}
             /\ store[out.name] = out.init
             /\ \A n \in DOMAIN out.before : store[n] = out.before[n]

\* C1 happens: a later call passes a value other than the stored one and
\* gets the stored one (pyro.param("new_param", 10.) returning 1).
ParamLaterCallSeen ==
    /\ out.op = "param" /\ out.init.k # "none"
    /\ out.name \in DOMAIN out.before
    /\ out.init # out.before[out.name]
    /\ out.ret = out.before[out.name]
    /\ out.name = "new_param" /\ out.init = T(Float(10, 0)) /\ out.ret = T(Float(1, 0))

\* C2: after pyro.clear_param_store() the store holds no name, and the next
\* pyro.param(name, v), for any name, stores v and returns v.
ClearThenParamInitialises ==
    /\ out.op = "clear" => DOMAIN store = {}
    /\ (out2.op = "clear" /\ out.op = "param" /\ out.init.k # "none") =>
            /\ out.exc = "none" /\ out.ret = out.init
            /\ DOMAIN store = {out.name} /\ store[out.name] = out.init

\* C2 happens: a name stored before the clear is initialised again, with
\* another value.
ReinitialisedAfterClearSeen ==
    /\ out2.op = "clear" /\ out.op = "param" /\ out.init.k # "none"
    /\ out.name \in DOMAIN out2.before
    /\ out2.before[out.name] # out.init
    /\ out.ret = out.init /\ store[out.name] = out.init

\* C3: conditioned_scale takes what scale takes and returns a measurement as
\* scale does; every execution returns measurement 14, whatever is drawn for
\* weight, and weight is an unobserved site drawn from Normal(10, 1).
ConditionedScaleObserves14 ==
    (out.op = "call" /\ out.callee = "conditioned_scale") =>
        /\ Params(ns["conditioned_scale"].v) = Params(ns["scale"].v)
        /\ out.run.exc = "none"
        /\ out.run.ret = T(Float(14, 0))
        /\ Len(out.run.trace) = 2
        /\ out.run.trace[1].name = "weight"
        /\ ~out.run.trace[1].is_observed
        /\ out.run.trace[1].dist = Normal(Float(10, 0), Float(1, 0))
        /\ \E e \in Eps : out.run.trace[1].value = T(Float(10, 0) + e * Float(1, 0))
        /\ out.run.trace[2].name = "measurement"
        /\ out.run.trace[2].is_observed
        /\ out.run.trace[2].value = T(Float(14, 0))

\* C3 happens: a run of conditioned_scale whose weight is not the prior mean.
ConditionedScaleRunSeen ==
    /\ out.op = "call" /\ out.callee = "conditioned_scale"
    /\ out.run.trace[1].value.v # Float(10, 0)
    /\ out.run.ret.v = Float(14, 0)

\* C4: scale_obs is equivalent to conditioned_scale. Run one after the other
\* with the same draw for weight, both visit the same named sites in the same
\* order (weight unobserved, then measurement observed at 14), with the same
\* distributions and the same values, and return the same measurement value.
ScaleObsEquivalent ==
    (/\ out2.op = "call" /\ out2.callee = "conditioned_scale"
     /\ out.op = "call" /\ out.callee = "scale_obs"
     /\ out2.run.trace[1].value = out.run.trace[1].value) =>
        /\ Len(out.run.trace) = Len(out2.run.trace)
        /\ \A j \in 1..Len(out2.run.trace) :
            /\ out.run.trace[j].name = out2.run.trace[j].name
            /\ out.run.trace[j].is_observed = out2.run.trace[j].is_observed
            /\ out.run.trace[j].dist = out2.run.trace[j].dist
            /\ out.run.trace[j].value.v = out2.run.trace[j].value.v
        /\ Observed(out.run.trace) = {"measurement"}
        /\ out.run.ret.v = out2.run.ret.v
        /\ out.run.ret.v = Float(14, 0)

\* C4 happens: the two functions have run with the same weight draw.
SideBySideSeen ==
    /\ out2.op = "call" /\ out2.callee = "conditioned_scale"
    /\ out.op = "call" /\ out.callee = "scale_obs"
    /\ out2.run.trace[1].value = out.run.trace[1].value
    /\ out.run.trace[1].value.v # Float(10, 0)

\* C5: optimisation updates the guide parameters in the parameter store.
\* After a svi.step() that returned, the store holds "a" and "b" with the
\* values the optimiser wrote; the pyro.param("a") and pyro.param("b") reads
\* that follow return the stored values, which is what the lists a and b
\* record; and every guide() call made once the store holds "a" and "b"
\* builds Normal(a, |b|) from the stored values, not from the initial 1.
StoreCarriesUpdates ==
    /\ (out.op = "svi.step" /\ out.exc = "none") =>
            /\ {"a", "b"} \subseteq DOMAIN store
            /\ store = out.store
    /\ (out.op = "param" /\ out.init.k = "none") =>
            /\ out.exc = "none"
            /\ out.ret = store[out.name]
            /\ ns[out.name].v[Len(ns[out.name].v)] = Item(store[out.name])
    /\ (out.op = "svi.step" /\ {"a", "b"} \subseteq DOMAIN out.before) =>
            out.guide.dists[1] =
                Normal(out.before["a"].v, Abs(out.before["b"].v))

\* C5 happens: a guide() call after a step that moved "a" away from 1, and a
\* read of "a" that returned the moved value.
UpdatedParamsUsedSeen ==
    /\ out.op = "svi.step" /\ out.exc = "none"
    /\ "a" \in DOMAIN out.before
    /\ out.before["a"] # T(Float(1, 0))
    /\ out.guide.dists[1].params[1] = out.before["a"].v
    /\ Len(ns["a"].v) = 1 /\ ns["a"].v[1] = Item(out.before["a"])

\* C6: the guide is a valid guide for conditioned_scale: every unobserved
\* sample site of the model is sampled in the guide, the observed site
\* "measurement" is not, and both take the same (no) arguments.
GuideValid ==
    (out.op = "svi.step" /\ out.exc = "none") =>
        /\ LatentSites(out.model.trace) = {"weight"}
        /\ LatentSites(out.model.trace) \subseteq Sites(out.guide.trace)
        /\ Observed(out.model.trace) = {"measurement"}
        /\ "measurement" \notin Sites(out.guide.trace)
        /\ Params(ns["svi"].guide.v) = Params(ns["svi"].model.v)
        /\ Params(ns["svi"].guide.v) = <<>>

\* C6 happens: a step of SVI has run the guide and the model.
GuideAndModelRunSeen ==
    /\ out.op = "svi.step" /\ out.exc = "none"
    /\ Len(out.model.trace) = 2 /\ Len(out.guide.trace) = 1
    /\ ns["svi"].model.v = "scale" /\ ns["svi"].guide.v = "guide"

\* C7: the standard deviation guide passes to Normal is positive for every
\* value of "b", the values an optimisation step writes included.
GuideStdPositive ==
    out.op = "svi.step" => out.guide.dists[1].params[2] > 0

\* C8: weather() returns 'cloudy' exactly when site cloudy drew 1 and 'sunny'
\* otherwise; temperature is a site with distribution Normal(55, 10) when
\* cloudy and Normal(75, 15) when sunny, so its mean is higher on sunny days;
\* the returned temperature is the value of site temperature.
WeatherReturnsBranch ==
    (out.op = "call" /\ out.callee = "weather") =>
        /\ Len(out.run.trace) = 2
        /\ out.run.trace[1].name = "cloudy"
        /\ out.run.trace[1].value.v \in {Float(0, 0), Float(1, 0)}
        /\ out.run.trace[2].name = "temperature"
        /\ out.run.ret[1].v \in {"cloudy", "sunny"}
        /\ out.run.ret[1].v = "cloudy" <=> out.run.trace[1].value.v = Float(1, 0)
        /\ out.run.ret[1].v = "cloudy" =>
                out.run.trace[2].dist = Normal(Float(55, 0), Float(10, 0))
        /\ out.run.ret[1].v = "sunny" =>
                out.run.trace[2].dist = Normal(Float(75, 0), Float(15, 0))
        /\ out.run.ret[2] = out.run.trace[2].value
        /\ WeatherLoc("sunny") > WeatherLoc("cloudy")

\* C8 happens: a cloudy day right after a sunny one.
BothWeathersSeen ==
    /\ out.op = "call" /\ out.callee = "weather"
    /\ out2.op = "call" /\ out2.callee = "weather"
    /\ out.run.ret[1].v = "cloudy" /\ out2.run.ret[1].v = "sunny"
    /\ out.run.trace[1].value.v = Float(1, 0)

\* The dictionary get_samples() must return: the one key "weight", 1000
\* draws, each from a step after the 50 warm-up steps.
PosteriorOK(d) ==
    /\ d.k = "dict"
    /\ DOMAIN d.v = {"weight"}
    /\ d.v["weight"].n = 1000
    /\ d.v["weight"].first >= 50
    /\ d.v["weight"].last < 50 + 1000

\* C9: sampler.run() terminates after 50 warm-up steps followed by 1000
\* sampling steps, and sampler.get_samples() then returns a dictionary whose
\* only key is "weight", holding exactly 1000 draws, none of them from the
\* warm-up steps and none for "measurement".
McmcTerminatesWithPosterior ==
    ("sampler" \in DOMAIN ns /\ ns["sampler"].phase = "running")
        ~> (/\ "posterior" \in DOMAIN ns
            /\ ns["sampler"].phase = "done"
            /\ ns["sampler"].i = 50 + 1000
            /\ PosteriorOK(ns["posterior"]))

\* C9 happens: the posterior has been fetched after a complete run.
PosteriorSeen ==
    /\ "posterior" \in DOMAIN ns
    /\ ns["sampler"].phase = "done"
    /\ ns["posterior"].v["weight"].n = 1000
    /\ ns["posterior"].v["weight"].first = 50

\* What was written stays: every entry of f is an entry of g.
Kept(f, g) == \A n \in DOMAIN f : n \in DOMAIN g /\ g[n] = f[n]

\* C10: no cell handles errors. When a statement raises, the names and the
\* parameter-store entries written before it stay as they were and the
\* statement does not complete; the exception then leaves the cell: the
\* remaining statements of the cell do not run, the session is at the first
\* statement of the next cell, and names and store are still as they were.
UncaughtExceptionEndsCell ==
    [][ /\ (exc = "none" /\ exc' # "none") =>
                /\ cell' = cell /\ stmt' = stmt
                /\ Kept(ns, ns') /\ Kept(store, store')
        /\ exc # "none" =>
                /\ cell' = cell + 1 /\ stmt' = 1 /\ exc' = "none"
                /\ ns' = ns /\ store' = store ]_vars

\* C10 happens: svi.step() has raised in the training loop with names and
\* parameters written and statements of the cell left to run.
RaisedMidCellSeen ==
    /\ nb = "intro" /\ exc = "ValueError"
    /\ stmt < Len(Body)
    /\ DOMAIN store = {"a", "b"}
    /\ Len(ns["a"].v) > 0

\* C11: run once in file order from a fresh session, every name a statement
\* reads has been bound by an earlier cell or earlier in the same cell when
\* the statement is reached, so no cell of either notebook fails on an unbound
\* name.
NoCellReadsUnboundName == Running => Cur.reads \subseteq DOMAIN ns

\* A pixel value that lies in [0, 1].
InUnit(v) == v.k = "finite" /\ 0 <= v.num /\ v.num <= v.den

\* A pixel value equal to 1.
IsOne(v) == v.k = "finite" /\ v.num = v.den

\* C12: once the letters cell has normalised the ten images, every pixel of
\* every image lies in [0, 1] and the largest pixel of every image is 1,
\* whatever the images loaded; and the figure shown has exactly four plots,
\* of the first four images in order, titled a, b, c and d.
LettersNormalisedAndPlotted ==
    (nb = "letters" /\ stmt > 1) =>
        /\ Len(ns["x_letters"].v) = 10
        /\ \A i \in 1..Len(ns["x_letters"].v) :
            /\ \A p \in 1..Len(ns["x_letters"].v[i]) : InUnit(ns["x_letters"].v[i][p])
            /\ \E p \in 1..Len(ns["x_letters"].v[i]) : IsOne(ns["x_letters"].v[i][p])
        /\ (out.op = "figure" /\ out.shown) =>
            /\ Len(out.subplots) = 4
            /\ \A j \in 1..Len(out.subplots) :
                /\ out.subplots[j].pos = j
                /\ out.subplots[j].image = ns["x_letters"].v[j]
                /\ out.subplots[j].title = <<"a", "b", "c", "d">>[j]

====
